---- MODULE Spec2Model ----
(***************************************************************************)
(* Model of the example MCP server.  The repository holds three variants   *)
(* of the same server:                                                     *)
(*   "index"    src/src/index.ts                 (5 tools)                 *)
(*   "compiled" src/build/mcp_server.js:1-132    (3 tools, stale build)    *)
(*   "extended" src/build/mcp_server.js:133-659  (7 tools)                 *)
(* A behaviour is one process lifetime of one variant: call-tool and       *)
(* list-tools requests arrive, handlers run to their next await, I/O       *)
(* completes, and SIGINT ends the process.                                 *)
(***************************************************************************)
EXTENDS Integers, Sequences, FiniteSets, TLC

VARIABLES build, proc, calls, wire, fs, net, listed, apiKey

vars == <<build, proc, calls, wire, fs, net, listed, apiKey>>

Builds == {"index", "compiled", "extended"}

(***************************************************************************)
(* Bounds of the model.                                                    *)
(***************************************************************************)
MaxReqs == 2
MaxFsReqs == 3
MaxNetReqs == 2
MaxLatency == 2
MaxLists == 2
MaxMixReqs == 2
MaxWeatherReqs == 2

(***************************************************************************)
(* JavaScript values.  A string is a sequence of chunks; the chunks of a   *)
(* file content are single UTF-16 code units ("HI" and "LO" stand for a    *)
(* high and a low surrogate, "e'" for a two-byte letter, "FFFD" for the    *)
(* replacement character).                                                 *)
(***************************************************************************)
Undef == [k |-> "undefined", s |-> <<>>, n |-> 0]
Str(s) == [k |-> "string", s |-> s, n |-> 0]
S(c) == Str(<<c>>)
Num(n) == [k |-> "number", s |-> <<>>, n |-> n]
NaN == [k |-> "number", s |-> <<"NaN">>, n |-> 0]
Obj == [k |-> "object", s |-> <<>>, n |-> 0]

TypeOf(v) == v.k

Truthy(v) ==
  CASE v.k = "undefined" -> FALSE
    [] v.k = "string" -> v.s # <<>>
    [] v.k = "number" -> v.n # 0 /\ v.s = <<>>
    [] OTHER -> TRUE

\* a || b
OrElse(a, b) == IF Truthy(a) THEN a ELSE b

\* `${v}`
JsToString(v) ==
  CASE v.k = "undefined" -> <<"undefined">>
    [] v.k = "string" -> v.s
    [] v.k = "number" -> IF v.s # <<>> THEN v.s ELSE <<ToString(v.n)>>
    [] OTHER -> <<"[object Object]">>

\* a + b
JsAdd(a, b) ==
  IF a.k = "number" /\ b.k = "number"
  THEN IF a.s # <<>> \/ b.s # <<>> THEN NaN ELSE Num(a.n + b.n)
  ELSE IF a.k \in {"string", "object"} \/ b.k \in {"string", "object"}
  THEN Str(JsToString(a) \o JsToString(b))
  ELSE NaN

\* a * b on numbers
JsMul(a, b) == IF a.s # <<>> \/ b.s # <<>> THEN NaN ELSE Num(a.n * b.n)

(***************************************************************************)
(* Requests.  request.params = { name, arguments }; arguments may be       *)
(* absent.  A present arguments object gives every field a value, Undef    *)
(* for a field it does not hold.                                           *)
(***************************************************************************)
Fields == {"text", "a", "b", "operation", "path", "content", "url", "method",
           "headers", "body", "timeout", "city", "units", "endpoint", "id"}

Empty == [f \in Fields |-> Undef]

With(args, f, v) == [args EXCEPT ![f] = v]

Req(name, args) == [name |-> name, hasArgs |-> TRUE, args |-> args]
ReqNoArgs(name) == [name |-> name, hasArgs |-> FALSE, args |-> Empty]

(***************************************************************************)
(* Errors, handler outcomes and responses.                                 *)
(***************************************************************************)
McpError(code, msg) == [mcp |-> TRUE, code |-> code, msg |-> msg]
Fault(msg) == [mcp |-> FALSE, code |-> "", msg |-> msg]
NoErr == [mcp |-> FALSE, code |-> "", msg |-> <<>>]

\* What a handler does up to its next await: it returns, throws, or suspends
\* at pc after sending the outbound requests in send and arming a timer
\* (timer = 0: none).
Return(text) ==
  [t |-> "return", text |-> text, err |-> NoErr, pc |-> "done", send |-> <<>>, timer |-> 0]
Throw(err) ==
  [t |-> "throw", text |-> <<>>, err |-> err, pc |-> "done", send |-> <<>>, timer |-> 0]
Await(pc) ==
  [t |-> "await", text |-> <<>>, err |-> NoErr, pc |-> pc, send |-> <<>>, timer |-> 0]
AwaitFetch(pc, url, method, timer) ==
  [t |-> "await", text |-> <<>>, err |-> NoErr, pc |-> pc,
   send |-> <<[url |-> url, method |-> method]>>, timer |-> timer]


(***************************************************************************)
(* The tool descriptors of the list-tools handler.  A property is          *)
(* [field, kind, required, enum]; enum = {} when the schema gives none.    *)
(***************************************************************************)
Prop(f, kind, req, enum) == [field |-> f, kind |-> kind, required |-> req, enum |-> enum]

EchoTool == [name |-> "echo", props |-> {Prop("text", "string", TRUE, {})}]
AddTool ==
  [name |-> "add_numbers",
   props |-> {Prop("a", "number", TRUE, {}), Prop("b", "number", TRUE, {})}]
MultiplyTool ==
  [name |-> "multiply_numbers",
   props |-> {Prop("a", "number", TRUE, {}), Prop("b", "number", TRUE, {})}]
GetTimeTool == [name |-> "get_time", props |-> {}]
FileOpsTool ==
  [name |-> "file_operations",
   props |-> {Prop("operation", "string", TRUE, {<<"read">>, <<"write">>, <<"list">>}),
              Prop("path", "string", TRUE, {}),
              Prop("content", "string", FALSE, {})}]
HttpTool ==
  [name |-> "http_request",
   props |-> {Prop("url", "string", TRUE, {}),
              Prop("method", "string", FALSE,
                   {<<"GET">>, <<"POST">>, <<"PUT">>, <<"DELETE">>, <<"PATCH">>}),
              Prop("headers", "object", FALSE, {}),
              Prop("body", "string", FALSE, {}),
              Prop("timeout", "number", FALSE, {})}]
WeatherTool ==
  [name |-> "weather_api",
   props |-> {Prop("city", "string", TRUE, {}),
              Prop("units", "string", FALSE,
                   {<<"metric">>, <<"imperial">>, <<"kelvin">>})}]
JsonPlaceholderTool ==
  [name |-> "json_placeholder",
   props |-> {Prop("endpoint", "string", TRUE,
                   {<<"posts">>, <<"users">>, <<"todos">>, <<"comments">>,
                    <<"albums">>, <<"photos">>}),
              Prop("id", "number", FALSE, {})}]

ListToolsMissingOne(b) ==
  CASE b = "index" -> <<EchoTool, AddTool, GetTimeTool, FileOpsTool>>
    [] b = "compiled" -> <<EchoTool, AddTool>>
    [] OTHER -> <<EchoTool, AddTool, GetTimeTool, FileOpsTool, HttpTool, WeatherTool>>

\* The tools array the list-tools handler returns.
ListToolsHandler(b) ==
  CASE b = "index" -> <<EchoTool, AddTool, MultiplyTool, GetTimeTool, FileOpsTool>>
    [] b = "compiled" -> <<EchoTool, AddTool, GetTimeTool>>
    [] OTHER -> <<EchoTool, AddTool, GetTimeTool, FileOpsTool, HttpTool, WeatherTool,
                  JsonPlaceholderTool>>

\* The case labels of the call-tool handler's switch.
SwitchCases(b) ==
  CASE b = "index" ->
         {"echo", "add_numbers", "multiply_numbers", "get_time", "file_operations"}
    [] b = "compiled" -> {"echo", "add_numbers", "get_time"}
    [] OTHER -> {"echo", "add_numbers", "get_time", "file_operations", "http_request",
                 "weather_api", "json_placeholder"}

(***************************************************************************)
(* Strings the handlers build.                                             *)
(***************************************************************************)
\* encodeURIComponent: a space becomes %20; other chunks of the model's
\* city names are unreserved and stay.
EncodeURIComponent(s) == [i \in 1..Len(s) |-> IF s[i] = " " THEN "%20" ELSE s[i]]

TypeErrorMsg(f) == <<"Cannot read properties of undefined (reading '", f, "')">>

DEFAULT_TIMEOUT == 10000

(***************************************************************************)
(* handleFileOperations up to its first await.                             *)
(***************************************************************************)
FileOpsEntry(args) ==
  IF TypeOf(args.operation) # "string" \/ TypeOf(args.path) # "string"
  THEN Throw(McpError("InvalidParams",
                      <<"Both 'operation' and 'path' parameters are required">>))
  ELSE Await("import")

(***************************************************************************)
(* handleHttpRequest up to `await fetch(...)`.                             *)
(***************************************************************************)
HttpTimeout(args) == OrElse(args.timeout, Num(DEFAULT_TIMEOUT))

\* setTimeout's delay: a delay below 1 ms, or one that is no number, is 1 ms.
TimerDelay(v) == IF v.k = "number" /\ v.s = <<>> /\ v.n >= 1 THEN v.n ELSE 1

HttpMethod(args) == OrElse(args.method, S("GET"))

HttpEntry(args) ==
  IF TypeOf(args.url) # "string"
  THEN Throw(McpError("InvalidParams", <<"URL parameter is required">>))
  ELSE AwaitFetch("http_fetch", args.url.s, JsToString(HttpMethod(args)),
                  TimerDelay(HttpTimeout(args)))

(***************************************************************************)
(* handleWeatherAPI up to `await fetch(url)`; key = process.env's          *)
(* OPENWEATHER_API_KEY ("" when unset).                                    *)
(***************************************************************************)
WeatherSetupText ==
  <<"Weather API requires OPENWEATHER_API_KEY environment variable. ",
    "You can get a free API key from https://openweathermap.org/api",
    "\n\nExample usage:\nOPENWEATHER_API_KEY=your_key_here npm start">>

WeatherUnits(args) == OrElse(args.units, S("metric"))

WeatherUrl(args, key) ==
  <<"https://api.openweathermap.org/data/2.5/weather?q=">>
    \o EncodeURIComponent(args.city.s) \o <<"&appid=", key, "&units=">>
    \o JsToString(WeatherUnits(args))

\* The credential kept from the first invocation that found none.
WeatherEntryCachedKey(args, key) ==
  LET cached == IF \E k \in DOMAIN wire :
                     wire[k].kind = "result" /\ wire[k].text = WeatherSetupText
                 THEN "" ELSE key
  IN IF TypeOf(args.city) # "string"
     THEN Throw(McpError("InvalidParams", <<"City parameter is required">>))
     ELSE IF cached = ""
     THEN Return(WeatherSetupText)
     ELSE AwaitFetch("weather_fetch", WeatherUrl(args, cached), "GET", 0)

WeatherEntry(args, key) ==
  IF TypeOf(args.city) # "string"
  THEN Throw(McpError("InvalidParams", <<"City parameter is required">>))
  ELSE IF key = ""
  THEN Return(WeatherSetupText)
  ELSE AwaitFetch("weather_fetch", WeatherUrl(args, key), "GET", 0)

(***************************************************************************)
(* handleJsonPlaceholder up to `await fetch(url)`.                         *)
(***************************************************************************)
JsonPlaceholderUrl(args) ==
  <<"https://jsonplaceholder.typicode.com/">> \o args.endpoint.s
    \o (IF Truthy(args.id) /\ TypeOf(args.id) = "number"
        THEN <<"/">> \o JsToString(args.id) ELSE <<>>)

JsonPlaceholderEntry(args) ==
  IF TypeOf(args.endpoint) # "string"
  THEN Throw(McpError("InvalidParams", <<"Endpoint parameter is required">>))
  ELSE AwaitFetch("json_fetch", JsonPlaceholderUrl(args), "GET", 0)

(***************************************************************************)
(* The call-tool handler: the switch on the tool name, up to the first     *)
(* await.  now = new Date().toISOString(), key = the weather credential.   *)
(***************************************************************************)
EchoCase(b, req) ==
  IF b = "compiled"
  THEN IF ~req.hasArgs
       THEN Throw(Fault(TypeErrorMsg("text")))
       ELSE Return(<<"Echo: ">> \o JsToString(req.args.text))
  ELSE IF TypeOf(req.args.text) # "string"
  THEN Throw(McpError("InvalidParams", <<"Text parameter is required">>))
  ELSE Return(<<"Echo: ">> \o req.args.text.s)

AddText(a, b) ==
  JsToString(a) \o <<" + ">> \o JsToString(b) \o <<" = ">> \o JsToString(JsAdd(a, b))

AddCaseCoerce(b, req) ==
  IF ~req.hasArgs
  THEN Throw(Fault(TypeErrorMsg("a")))
  ELSE Return(AddText(req.args.a, req.args.b))

AddCase(b, req) ==
  IF b = "compiled"
  THEN IF ~req.hasArgs
       THEN Throw(Fault(TypeErrorMsg("a")))
       ELSE Return(AddText(req.args.a, req.args.b))
  ELSE IF TypeOf(req.args.a) # "number" \/ TypeOf(req.args.b) # "number"
  THEN Throw(McpError("InvalidParams",
                      <<"Both 'a' and 'b' parameters must be numbers">>))
  ELSE Return(AddText(req.args.a, req.args.b))

MultiplyCase(req) ==
  IF TypeOf(req.args.a) # "number" \/ TypeOf(req.args.b) # "number"
  THEN Throw(McpError("InvalidParams",
                      <<"Both 'a' and 'b' parameters must be numbers">>))
  ELSE Return(JsToString(req.args.a) \o <<" * ">> \o JsToString(req.args.b)
                \o <<" = ">> \o JsToString(JsMul(req.args.a, req.args.b)))

GetTimeCase(now) == Return(<<"Current time: ", now>>)

DefaultCase(req) == Throw(McpError("MethodNotFound", <<"Unknown tool: ", req.name>>))

Switch(b, req, now, key) ==
  IF req.name \notin SwitchCases(b) THEN DefaultCase(req)
  ELSE CASE req.name = "echo" -> EchoCase(b, req)
         [] req.name = "add_numbers" -> AddCase(b, req)
         [] req.name = "multiply_numbers" -> MultiplyCase(req)
         [] req.name = "get_time" -> GetTimeCase(now)
         [] req.name = "file_operations" -> FileOpsEntry(req.args)
         [] req.name = "http_request" -> HttpEntry(req.args)
         [] req.name = "weather_api" -> WeatherEntry(req.args, key)
         [] OTHER -> JsonPlaceholderEntry(req.args)

\* The catch clause of the call-tool handler.
CallToolCatch(b, e) ==
  IF b # "compiled" /\ e.mcp
  THEN e
  ELSE McpError("InternalError", <<"Tool execution failed: ">> \o e.msg)

\* The guard before the try block: `if (!args) throw ...` (not in the
\* compiled variant).
ArgsGuardFails(b, req) == b # "compiled" /\ ~req.hasArgs

\* The call-tool handler from the request to its first await.
CallToolEntry(b, req, now, key) ==
  IF ArgsGuardFails(b, req)
  THEN Throw(McpError("InvalidParams", <<"Arguments are required">>))
  ELSE LET o == Switch(b, req, now, key)
       IN IF o.t = "throw" THEN Throw(CallToolCatch(b, o.err)) ELSE o



(***************************************************************************)
(* The filesystem behind fs/promises.  A node is absent, a file holding    *)
(* bytes, or a directory holding entry names in the order readdir gives    *)
(* them.  writeFile(path, s, 'utf8') stores the UTF-8 encoding of s and    *)
(* readFile(path, 'utf8') decodes it.                                      *)
(***************************************************************************)
Paths == {<<"f">>, <<"d">>, <<"m">>}

NoNode == [t |-> "none", bytes |-> <<>>, ents |-> <<>>]
FileNode(bytes) == [t |-> "file", bytes |-> bytes, ents |-> <<>>]
DirNode(ents) == [t |-> "dir", bytes |-> <<>>, ents |-> ents]

\* UTF-8 bytes of the code units of s from position i on: a surrogate pair
\* is one 4-byte sequence, an unpaired surrogate is encoded as U+FFFD.
RECURSIVE Utf8From(_, _)
Utf8From(s, i) ==
  IF i > Len(s) THEN <<>>
  ELSE IF s[i] = "HI" /\ i < Len(s) /\ s[i + 1] = "LO"
  THEN <<"F0", "9F", "98", "80">> \o Utf8From(s, i + 2)
  ELSE IF s[i] \in {"HI", "LO"} \/ s[i] = "FFFD"
  THEN <<"EF", "BF", "BD">> \o Utf8From(s, i + 1)
  ELSE IF s[i] = "e'"
  THEN <<"C3", "A9">> \o Utf8From(s, i + 1)
  ELSE <<s[i]>> \o Utf8From(s, i + 1)

Utf8Encode(s) == Utf8From(s, 1)

RECURSIVE Utf8DecodeFrom(_, _)
Utf8DecodeFrom(b, i) ==
  IF i > Len(b) THEN <<>>
  ELSE IF b[i] = "F0" THEN <<"HI", "LO">> \o Utf8DecodeFrom(b, i + 4)
  ELSE IF b[i] = "EF" THEN <<"FFFD">> \o Utf8DecodeFrom(b, i + 3)
  ELSE IF b[i] = "C3" THEN <<"e'">> \o Utf8DecodeFrom(b, i + 2)
  ELSE <<b[i]>> \o Utf8DecodeFrom(b, i + 1)

Utf8Decode(b) == Utf8DecodeFrom(b, 1)

\* The result of an I/O operation, as the awaiting handler sees it.
IoIdle == [st |-> "idle", val |-> <<>>, n |-> 0, flag |-> FALSE]
IoPending == [st |-> "pending", val |-> <<>>, n |-> 0, flag |-> FALSE]
IoOk(val, n, flag) == [st |-> "ok", val |-> val, n |-> n, flag |-> flag]
IoErr(msg) == [st |-> "err", val |-> msg, n |-> 0, flag |-> FALSE]

FsReadFile(f, p) ==
  IF p \notin Paths \/ f[p].t = "none"
  THEN IoErr(<<"ENOENT: no such file or directory, open '">> \o p \o <<"'">>)
  ELSE IF f[p].t = "dir"
  THEN IoErr(<<"EISDIR: illegal operation on a directory, read">>)
  ELSE IoOk(Utf8Decode(f[p].bytes), 0, FALSE)

FsWriteFileResult(f, p) ==
  IF p \notin Paths
  THEN IoErr(<<"ENOENT: no such file or directory, open '">> \o p \o <<"'">>)
  ELSE IF f[p].t = "dir"
  THEN IoErr(<<"EISDIR: illegal operation on a directory, open '">> \o p \o <<"'">>)
  ELSE IoOk(<<>>, 0, FALSE)

FsWriteFileAppend(f, p, s) ==
  IF FsWriteFileResult(f, p).st = "ok"
  THEN [f EXCEPT ![p] = FileNode(f[p].bytes \o Utf8Encode(s))]
  ELSE f

FsWriteFile(f, p, s) ==
  IF FsWriteFileResult(f, p).st = "ok"
  THEN [f EXCEPT ![p] = FileNode(Utf8Encode(s))]
  ELSE f

\* stats.size and stats.isDirectory()
FsStat(f, p) ==
  IF p \notin Paths \/ f[p].t = "none"
  THEN IoErr(<<"ENOENT: no such file or directory, stat '">> \o p \o <<"'">>)
  ELSE IF f[p].t = "dir"
  THEN IoOk(<<>>, 0, TRUE)
  ELSE IoOk(<<>>, Len(f[p].bytes), FALSE)

FsReaddir(f, p) ==
  IF p \notin Paths \/ f[p].t = "none"
  THEN IoErr(<<"ENOENT: no such file or directory, scandir '">> \o p \o <<"'">>)
  ELSE IF f[p].t = "file"
  THEN IoErr(<<"ENOTDIR: not a directory, scandir '">> \o p \o <<"'">>)
  ELSE IoOk(f[p].ents, 0, FALSE)


(***************************************************************************)
(* handleFileOperations after its awaits.                                  *)
(***************************************************************************)
FsOps == {"readFile", "writeFile", "stat", "readdir"}

\* The switch on args.operation, reached after the two dynamic imports.
FileOpsSwitchNoContentCheck(args) ==
  CASE args.operation.s = <<"read">> -> Await("readFile")
    [] args.operation.s = <<"write">> -> Await("writeFile")
    [] args.operation.s = <<"list">> -> Await("stat")
    [] OTHER -> Throw(McpError("InvalidParams",
                               <<"Unknown file operation: ">> \o args.operation.s))

FileOpsSwitch(args) ==
  CASE args.operation.s = <<"read">> -> Await("readFile")
    [] args.operation.s = <<"write">> ->
         IF TypeOf(args.content) # "string"
         THEN Throw(McpError("InvalidParams",
                             <<"Content parameter is required for write operation">>))
         ELSE Await("writeFile")
    [] args.operation.s = <<"list">> -> Await("stat")
    [] OTHER -> Throw(McpError("InvalidParams",
                               <<"Unknown file operation: ">> \o args.operation.s))

\* files.join(sep)
RECURSIVE Join(_, _)
Join(files, sep) ==
  IF files = <<>> THEN <<>>
  ELSE IF Len(files) = 1 THEN <<files[1]>>
  ELSE <<files[1], sep>> \o Join(Tail(files), sep)

FileOpsResumeListNeedsDirectory(args, pc, io) ==
  IF io.st = "err" THEN Throw(Fault(io.val))
  ELSE CASE pc = "readFile" ->
              Return(<<"File content of ">> \o args.path.s \o <<":\n">> \o io.val)
         [] pc = "writeFile" -> Return(<<"Successfully wrote to ">> \o args.path.s)
         [] pc = "stat" -> Await("readdir")
         [] OTHER ->
              Return(<<"Directory contents of ">> \o args.path.s \o <<":\n">>
                       \o Join(io.val, "\n"))

\* The handler's continuation when the awaited fs call has settled.
FileOpsResume(args, pc, io) ==
  IF io.st = "err" THEN Throw(Fault(io.val))
  ELSE CASE pc = "readFile" ->
              Return(<<"File content of ">> \o args.path.s \o <<":\n">> \o io.val)
         [] pc = "writeFile" -> Return(<<"Successfully wrote to ">> \o args.path.s)
         [] pc = "stat" ->
              IF io.flag
              THEN Await("readdir")
              ELSE Return(args.path.s \o <<" is a file (size: ", ToString(io.n), " bytes)">>)
         [] OTHER ->
              Return(<<"Directory contents of ">> \o args.path.s \o <<":\n">>
                       \o Join(io.val, "\n"))

\* The catch clause of handleFileOperations.
FileOpsCatch(e) ==
  IF e.mcp THEN e ELSE McpError("InternalError", <<"File operation failed: ">> \o e.msg)

(***************************************************************************)
(* The network handlers after `await fetch`.  A settled fetch is           *)
(* IoOk(body, status, isJson) or IoErr(message).                           *)
(***************************************************************************)
FetchPcs == {"http_fetch", "weather_fetch", "json_fetch"}
BodyPcs == {"http_body", "weather_json", "json_json"}

ResponseOk(io) == io.n >= 200 /\ io.n <= 299

\* JSON.stringify(responseData, null, 2): a JSON body re-serialised, a text
\* body as a JSON string literal.
Stringify(io) == IF io.flag THEN io.val ELSE <<"\"">> \o io.val \o <<"\"">>

HttpFetchResume(args, io) ==
  IF io.st = "err" THEN Throw(Fault(io.val)) ELSE Await("http_body")

HttpBodyResume(args, io) ==
  Return(<<"HTTP ">> \o JsToString(HttpMethod(args)) \o <<" ">> \o args.url.s
           \o <<"\nStatus: ", ToString(io.n), "\nContent-Type: ",
                IF io.flag THEN "application/json" ELSE "text/plain",
                "\n\nResponse:\n">> \o Stringify(io))

HttpCatch(e) == McpError("InternalError", <<"HTTP request failed: ">> \o e.msg)

UnitSymbol(units) ==
  IF units.s = <<"metric">> THEN "C" ELSE IF units.s = <<"imperial">> THEN "F" ELSE "K"

WeatherFetchResume(args, io) ==
  IF io.st = "err" THEN Throw(Fault(io.val)) ELSE Await("weather_json")

WeatherJsonResume(args, io) ==
  IF ~ResponseOk(io)
  THEN Throw(Fault(<<"Weather API error: ">> \o io.val))
  ELSE Return(<<"Weather in ">> \o io.val \o <<" Temperature: ", UnitSymbol(WeatherUnits(args))>>)

WeatherCatch(e) == McpError("InternalError", <<"Weather API request failed: ">> \o e.msg)

JsonFetchResume(args, io) ==
  IF io.st = "err" THEN Throw(Fault(io.val))
  ELSE IF ~ResponseOk(io)
  THEN Throw(Fault(<<"API request failed with status ", ToString(io.n)>>))
  ELSE Await("json_json")

JsonJsonResume(args, io) ==
  Return(<<"JSONPlaceholder API - ">> \o args.endpoint.s
           \o (IF Truthy(args.id) THEN <<" (ID: ">> \o JsToString(args.id) \o <<")">>
               ELSE <<>>)
           \o <<":\n\n">> \o Stringify(io))

JsonPlaceholderCatch(e) ==
  McpError("InternalError", <<"JSONPlaceholder API request failed: ">> \o e.msg)

ResumeSharedArgs(args, pc, io) ==
  LET last == calls[Len(calls)].req.args
  IN CASE pc \in FsOps -> FileOpsResume(last, pc, io)
       [] pc = "http_fetch" -> HttpFetchResume(last, io)
       [] pc = "http_body" -> HttpBodyResume(last, io)
       [] pc = "weather_fetch" -> WeatherFetchResume(last, io)
       [] pc = "weather_json" -> WeatherJsonResume(last, io)
       [] pc = "json_fetch" -> JsonFetchResume(last, io)
       [] OTHER -> JsonJsonResume(last, io)

\* The continuation of a suspended handler, by where it is suspended.
Resume(args, pc, io) ==
  CASE pc \in FsOps -> FileOpsResume(args, pc, io)
    [] pc = "http_fetch" -> HttpFetchResume(args, io)
    [] pc = "http_body" -> HttpBodyResume(args, io)
    [] pc = "weather_fetch" -> WeatherFetchResume(args, io)
    [] pc = "weather_json" -> WeatherJsonResume(args, io)
    [] pc = "json_fetch" -> JsonFetchResume(args, io)
    [] OTHER -> JsonJsonResume(args, io)

\* The catch clause of the handler suspended at pc.
HandlerCatch(pc, e) ==
  CASE pc \in FsOps \cup {"import"} -> FileOpsCatch(e)
    [] pc \in {"http_fetch", "http_body"} -> HttpCatch(e)
    [] pc \in {"weather_fetch", "weather_json"} -> WeatherCatch(e)
    [] OTHER -> JsonPlaceholderCatch(e)

\* What the call-tool handler makes of the outcome o of a handler that was
\* suspended at pc: `return await this.handleX(args)` inside try/catch.
Settle(b, pc, o) ==
  IF o.t = "throw" THEN Throw(CallToolCatch(b, HandlerCatch(pc, o.err))) ELSE o


(***************************************************************************)
(* State.                                                                  *)
(*   build   which variant of the server runs                              *)
(*   proc    "running", or "exited" after SIGINT                           *)
(*   calls   the call-tool requests received, in order; calls[i] is        *)
(*           [req, pc, io, timer, lat, fsn]: the request, where its        *)
(*           handler is ("done" once answered), the awaited I/O, the       *)
(*           abort timer's delay (0: none), the remote's latency, and the  *)
(*           number of filesystem calls the handler has issued             *)
(*   wire    the transport's messages in order: requests in, responses out *)
(*   fs      the filesystem                                                *)
(*   net     the outbound HTTP requests sent, each with its call's id      *)
(*   listed  the list-tools responses so far, each with the number of      *)
(*           call-tool requests received before it                         *)
(*   apiKey  process.env.OPENWEATHER_API_KEY ("": unset)                   *)
(***************************************************************************)
InitFs ==
  [p \in Paths |->
     CASE p = <<"f">> -> FileNode(<<"a">>)
       [] p = <<"d">> -> DirNode(<<"z", "b", "c">>)
       [] OTHER -> NoNode]

InitWith(builds, keys) ==
  /\ build \in builds
  /\ proc = "running"
  /\ calls = <<>>
  /\ wire = <<>>
  /\ fs = InitFs
  /\ net = <<>>
  /\ listed = <<>>
  /\ apiKey \in keys

Clock == {"2026-01-01T00:00:00.000Z", "2026-01-01T00:00:01.000Z"}

Latencies == (1..MaxLatency) \cup {DEFAULT_TIMEOUT + 1}

RequestMsg(i) == [id |-> i, kind |-> "request", code |-> "", text |-> <<>>]

\* The response the SDK sends for a handler that returned or threw.
ResponseMsg(i, o) ==
  IF o.t = "return"
  THEN [id |-> i, kind |-> "result", code |-> "", text |-> o.text]
  ELSE [id |-> i, kind |-> "error", code |-> o.err.code, text |-> o.err.msg]

Sent(i, o) == [k \in 1..Len(o.send) |-> [id |-> i, url |-> o.send[k].url,
                                        method |-> o.send[k].method]]

\* Call i goes on with outcome o: it is answered, or suspends again.
Advance(i, o) ==
  /\ calls' = [calls EXCEPT ![i] =
                 [@ EXCEPT !.pc = o.pc,
                           !.io = IF o.t = "await" THEN IoPending ELSE IoIdle,
                           !.fsn = @ + (IF o.pc \in FsOps THEN 1 ELSE 0)]]
  /\ wire' = IF o.t = "await" THEN wire ELSE Append(wire, ResponseMsg(i, o))

(***************************************************************************)
(* A call-tool request arrives; the handler runs to its first await.       *)
(***************************************************************************)
CallTool(req, max) ==
  /\ proc = "running"
  /\ Len(calls) < max
  /\ \E now \in (IF req.name = "get_time" THEN Clock ELSE {"2026-01-01T00:00:00.000Z"}) :
       LET i == Len(calls) + 1
           o == CallToolEntry(build, req, now, apiKey)
       IN \E lat \in (IF o.timer # 0 THEN Latencies ELSE {0}) :
            /\ calls' = Append(calls,
                 [req |-> req, pc |-> o.pc,
                  io |-> IF o.t = "await" /\ o.pc \in FetchPcs THEN IoPending ELSE IoIdle,
                  timer |-> o.timer, lat |-> lat, fsn |-> 0])
            /\ wire' = IF o.t = "await"
                       THEN Append(wire, RequestMsg(i))
                       ELSE wire \o <<RequestMsg(i), ResponseMsg(i, o)>>
            /\ net' = net \o Sent(i, o)
  /\ UNCHANGED <<build, proc, fs, listed, apiKey>>

\* `await import('fs/promises'); await import('path')` have settled (one
\* suspension: nothing runs between the two), then the switch.
ImportResume(i) ==
  /\ proc = "running"
  /\ i \in DOMAIN calls
  /\ calls[i].pc = "import"
  /\ Advance(i, Settle(build, "import", FileOpsSwitch(calls[i].req.args)))
  /\ UNCHANGED <<build, proc, fs, net, listed, apiKey>>

\* The filesystem carries out the call a handler awaits.
FsPerform(i) ==
  /\ proc = "running"
  /\ i \in DOMAIN calls
  /\ calls[i].pc \in FsOps
  /\ calls[i].io.st = "pending"
  /\ LET a == calls[i].req.args
         p == a.path.s
     IN CASE calls[i].pc = "readFile" ->
               /\ calls' = [calls EXCEPT ![i].io = FsReadFile(fs, p)]
               /\ fs' = fs
          [] calls[i].pc = "writeFile" ->
               /\ calls' = [calls EXCEPT ![i].io = FsWriteFileResult(fs, p)]
               /\ fs' = FsWriteFile(fs, p, JsToString(a.content))
          [] calls[i].pc = "stat" ->
               /\ calls' = [calls EXCEPT ![i].io = FsStat(fs, p)]
               /\ fs' = fs
          [] OTHER ->
               /\ calls' = [calls EXCEPT ![i].io = FsReaddir(fs, p)]
               /\ fs' = fs
  /\ UNCHANGED <<build, proc, wire, net, listed, apiKey>>

\* The handler resumes with the settled filesystem call.
FsResume(i) ==
  /\ proc = "running"
  /\ i \in DOMAIN calls
  /\ calls[i].pc \in FsOps
  /\ calls[i].io.st \in {"ok", "err"}
  /\ Advance(i, Settle(build, calls[i].pc,
                       Resume(calls[i].req.args, calls[i].pc, calls[i].io)))
  /\ UNCHANGED <<build, proc, fs, net, listed, apiKey>>

\* The remote answers within the timer's delay; the handler resumes.
Remotes ==
  {IoOk(<<"{}">>, 200, TRUE), IoOk(<<"hello">>, 200, FALSE), IoOk(<<"not found">>, 404, TRUE)}

FetchRespond(i) ==
  /\ proc = "running"
  /\ i \in DOMAIN calls
  /\ calls[i].pc \in FetchPcs
  /\ calls[i].timer = 0 \/ calls[i].lat <= calls[i].timer
  /\ \E r \in Remotes :
       LET o == Settle(build, calls[i].pc, Resume(calls[i].req.args, calls[i].pc, r))
       IN /\ calls' = [calls EXCEPT ![i] =
                         [@ EXCEPT !.pc = o.pc,
                                   !.io = IF o.t = "await" THEN r ELSE IoIdle]]
          /\ wire' = IF o.t = "await" THEN wire ELSE Append(wire, ResponseMsg(i, o))
  /\ UNCHANGED <<build, proc, fs, net, listed, apiKey>>

\* The timer fires first: controller.abort() rejects the fetch.
FetchAbort(i) ==
  /\ proc = "running"
  /\ i \in DOMAIN calls
  /\ calls[i].pc \in FetchPcs
  /\ calls[i].timer # 0 /\ calls[i].timer <= calls[i].lat
  /\ Advance(i, Settle(build, calls[i].pc,
                       Resume(calls[i].req.args, calls[i].pc,
                              IoErr(<<"This operation was aborted">>))))
  /\ UNCHANGED <<build, proc, fs, net, listed, apiKey>>

\* The body has been read: `await response.json()` or `await response.text()`.
BodyResume(i) ==
  /\ proc = "running"
  /\ i \in DOMAIN calls
  /\ calls[i].pc \in BodyPcs
  /\ Advance(i, Settle(build, calls[i].pc,
                       Resume(calls[i].req.args, calls[i].pc, calls[i].io)))
  /\ UNCHANGED <<build, proc, fs, net, listed, apiKey>>

\* process.env.OPENWEATHER_API_KEY is given another value (process.env is a
\* live object: the handler sees at each invocation what it holds then).
Keys == {"", "k"}

SetEnv(k) ==
  /\ proc = "running"
  /\ k # apiKey
  /\ apiKey' = k
  /\ UNCHANGED <<build, proc, calls, wire, fs, net, listed>>

ListTools ==
  /\ proc = "running"
  /\ Len(listed) < MaxLists
  /\ listed' = Append(listed, [tools |-> ListToolsHandler(build), after |-> Len(calls)])
  /\ UNCHANGED <<build, proc, calls, wire, fs, net, apiKey>>

\* SIGINT: `await this.server.close(); process.exit(0)`.
Sigint ==
  /\ proc = "running"
  /\ proc' = "exited"
  /\ UNCHANGED <<build, calls, wire, fs, net, listed, apiKey>>


(***************************************************************************)
(* The requests a client sends in the model.                               *)
(***************************************************************************)
With2(f, v, g, w) == With(With(Empty, f, v), g, w)

Descriptors == {EchoTool, AddTool, MultiplyTool, GetTimeTool, FileOpsTool, HttpTool,
                WeatherTool, JsonPlaceholderTool}

\* Arguments that satisfy a tool's schema.
ValidArgs(name) ==
  CASE name = "echo" -> With(Empty, "text", S("hi"))
    [] name \in {"add_numbers", "multiply_numbers"} -> With2("a", Num(2), "b", Num(3))
    [] name = "file_operations" -> With2("operation", S("read"), "path", S("f"))
    [] name = "http_request" -> With(Empty, "url", S("http://h/"))
    [] name = "weather_api" -> With(Empty, "city", S("Paris"))
    [] name = "json_placeholder" -> With(Empty, "endpoint", S("posts"))
    [] OTHER -> Empty

\* Values of another primitive kind than the declared one.
WrongKind(kind) ==
  IF kind = "string" THEN {Num(5)} ELSE {S("x"), S("3")}

\* Every tool, with each required field in turn of the wrong kind.
IllTypedInputs ==
  UNION {UNION {{Req(d.name, With(ValidArgs(d.name), p.field, v)) :
                   v \in WrongKind(p.kind)} :
                p \in {q \in d.props : q.required}} :
         d \in Descriptors}

\* Requests every variant answers without suspending.
DispatchInputs ==
  {ReqNoArgs("nope"), Req("nope", Empty), Req("nope", With(Empty, "text", S("hi"))),
   ReqNoArgs("echo"), ReqNoArgs("get_time"), Req("get_time", Empty),
   Req("get_time", With(Empty, "text", S("hi"))),
   Req("echo", ValidArgs("echo")), Req("echo", With(Empty, "text", S(""))),
   Req("add_numbers", ValidArgs("add_numbers")),
   Req("multiply_numbers", ValidArgs("multiply_numbers"))}
  \cup IllTypedInputs

FileOp(op, path) == With2("operation", S(op), "path", S(path))
WriteOp(path, content) == With(FileOp("write", path), "content", content)

FsInputs ==
  {Req("file_operations", a) :
     a \in {FileOp("read", "f"), FileOp("read", "m"), FileOp("list", "f"),
            FileOp("list", "d"), FileOp("write", "f"), WriteOp("f", Num(7)),
            WriteOp("f", Str(<<"e'", "HI", "LO">>)), WriteOp("f", Str(<<"HI">>))}}

NetInputs ==
  {Req("http_request", a) :
     a \in {ValidArgs("http_request"),
            With2("url", S("http://h/"), "timeout", Num(0)),
            With2("url", S("http://h/"), "timeout", Num(1)),
            With2("url", S("http://h/"), "method", S("BOGUS"))}}
  \cup {Req("weather_api", a) :
     a \in {ValidArgs("weather_api"), With2("city", S("Paris"), "units", S("bogus")),
            With2("city", S("Paris"), "units", Num(5))}}
  \cup {Req("json_placeholder", a) :
     a \in {ValidArgs("json_placeholder"), With(Empty, "endpoint", S("bogus")),
            With2("endpoint", S("posts"), "id", Num(1)),
            With2("endpoint", S("posts"), "id", S("1"))}}

(***************************************************************************)
(* Specifications.  Spec: every variant, requests that are answered in     *)
(* the step that receives them.  SpecFs: index.ts with file operations in  *)
(* flight.  SpecNet: the extended variant with network calls in flight.    *)
(***************************************************************************)
Init == InitWith(Builds, {""})

Next ==
  \/ \E req \in DispatchInputs : CallTool(req, MaxReqs)
  \/ ListTools
  \/ Sigint

Spec == Init /\ [][Next]_vars

InitFsSpec == InitWith({"index"}, {""})

NextFs ==
  \/ \E req \in FsInputs : CallTool(req, MaxFsReqs)
  \/ \E i \in 1..MaxFsReqs : ImportResume(i)
  \/ \E i \in 1..MaxFsReqs : FsPerform(i)
  \/ \E i \in 1..MaxFsReqs : FsResume(i)
  \/ Sigint

SpecFs == InitFsSpec /\ [][NextFs]_vars

\* The event loop of the running process resumes every handler whose awaited
\* import or filesystem call has settled, and the filesystem carries out
\* every call it was given.
SpecFsLive ==
  /\ SpecFs
  /\ \A i \in 1..MaxFsReqs :
       WF_vars(ImportResume(i)) /\ WF_vars(FsPerform(i)) /\ WF_vars(FsResume(i))

InitNet == InitWith({"extended"}, {"", "k"})

NextNet ==
  \/ \E req \in NetInputs : CallTool(req, MaxNetReqs)
  \/ \E i \in 1..MaxNetReqs : FetchRespond(i)
  \/ \E i \in 1..MaxNetReqs : FetchAbort(i)
  \/ \E i \in 1..MaxNetReqs : BodyResume(i)
  \/ Sigint

SpecNet == InitNet /\ [][NextNet]_vars

\* Suspending and non-suspending tools together, in index.ts and in the
\* extended variant (http_request is no tool of index.ts).
MixInputs ==
  {Req("file_operations", FileOp("read", "f")), Req("file_operations", FileOp("read", "m")),
   Req("file_operations", FileOp("list", "d")),
   Req("http_request", ValidArgs("http_request")),
   Req("echo", ValidArgs("echo")), Req("echo", With(Empty, "text", S("yo"))),
   Req("add_numbers", ValidArgs("add_numbers")), Req("get_time", Empty)}

InitMix == InitWith({"index", "extended"}, {""})

NextMix ==
  \/ \E req \in MixInputs : CallTool(req, MaxMixReqs)
  \/ \E i \in 1..MaxMixReqs : ImportResume(i)
  \/ \E i \in 1..MaxMixReqs : FsPerform(i)
  \/ \E i \in 1..MaxMixReqs : FsResume(i)
  \/ \E i \in 1..MaxMixReqs : FetchRespond(i)
  \/ \E i \in 1..MaxMixReqs : FetchAbort(i)
  \/ \E i \in 1..MaxMixReqs : BodyResume(i)
  \/ Sigint

SpecMix == InitMix /\ [][NextMix]_vars

\* The weather tool of the extended variant, with the credential set and
\* unset while the process runs.
WeatherInputs ==
  {Req("weather_api", a) :
     a \in {ValidArgs("weather_api"), With2("city", S("Paris"), "units", S("imperial")),
            With(Empty, "city", Str(<<"New", " ", "York">>)), With(Empty, "city", Num(5))}}

InitWeather == InitWith({"extended"}, Keys)

NextWeather ==
  \/ \E req \in WeatherInputs : CallTool(req, MaxWeatherReqs)
  \/ \E k \in Keys : SetEnv(k)
  \/ \E i \in 1..MaxWeatherReqs : FetchRespond(i)
  \/ \E i \in 1..MaxWeatherReqs : BodyResume(i)
  \/ Sigint

SpecWeather == InitWeather /\ [][NextWeather]_vars


(***************************************************************************)
(* Reading the state.                                                      *)
(***************************************************************************)
IsResponse(m) == m.kind # "request"

\* The responses sent for call i, and the outbound requests it sent.
RespsOf(i) == SelectSeq(wire, LAMBDA m : m.id = i /\ IsResponse(m))
NetOf(i) == SelectSeq(net, LAMBDA m : m.id = i)

Answered(i) == RespsOf(i) # <<>>
FailedWith(i, code) ==
  /\ Len(RespsOf(i)) = 1
  /\ RespsOf(i)[1].kind = "error"
  /\ RespsOf(i)[1].code = code
Succeeded(i) == Len(RespsOf(i)) = 1 /\ RespsOf(i)[1].kind = "result"

PosReq(i) == CHOOSE k \in 1..Len(wire) : wire[k].id = i /\ wire[k].kind = "request"
PosResp(i) == CHOOSE k \in 1..Len(wire) : wire[k].id = i /\ IsResponse(wire[k])

\* msg occurs in text.
Embeds(text, msg) ==
  \E k \in 1..(Len(text) + 1) :
    k + Len(msg) - 1 <= Len(text) /\ SubSeq(text, k, k + Len(msg) - 1) = msg

\* The descriptors list-tools gives for the running variant.
Registered == {ListToolsHandler(build)[k] : k \in DOMAIN ListToolsHandler(build)}
RegisteredNames == {d.name : d \in Registered}

NoEffects(i) == calls[i].fsn = 0 /\ NetOf(i) = <<>>

(***************************************************************************)
(* C1.  A call-tool request whose tool name is not registered is answered  *)
(* MethodNotFound whatever its arguments (present, empty or absent), and   *)
(* no handler effect (filesystem, network) occurs.                         *)
(***************************************************************************)
C1_UnknownToolIsMethodNotFound ==
  \A i \in DOMAIN calls :
    calls[i].req.name \notin RegisteredNames =>
      FailedWith(i, "MethodNotFound") /\ NoEffects(i)

(***************************************************************************)
(* C2.  Every call-tool request received gets exactly one response, also   *)
(* across an external shutdown: once the process has exited nothing more   *)
(* is sent, so by then every received request has its one response.        *)
(***************************************************************************)
C2_EveryCallAnsweredOnce ==
  /\ \A i \in DOMAIN calls : Len(RespsOf(i)) <= 1
  /\ proc = "exited" => \A i \in DOMAIN calls : Len(RespsOf(i)) = 1


(***************************************************************************)
(* C3.  In index.ts and in the extended variant: a call to a registered    *)
(* tool in which a required field is present but of another primitive kind *)
(* than its schema declares is answered InvalidParams in the step that     *)
(* receives it, with no coercion (no result is produced from the value)    *)
(* and before any filesystem or network operation of the handler.          *)
(***************************************************************************)
IllTypedRequired(i) ==
  /\ calls[i].req.hasArgs
  /\ \E d \in Registered :
       /\ d.name = calls[i].req.name
       /\ \E p \in d.props :
            /\ p.required
            /\ TypeOf(calls[i].req.args[p.field]) \notin {"undefined", p.kind}

C4_TypedFailuresReachClientVerbatim ==
  \A i \in DOMAIN calls :
    LET o == Switch(build, calls[i].req, "2026-01-01T00:00:00.000Z", apiKey)
    IN (~ArgsGuardFails(build, calls[i].req) /\ o.t = "throw") =>
         IF o.err.mcp
         THEN RespsOf(i) = <<[id |-> i, kind |-> "error", code |-> o.err.code,
                              text |-> o.err.msg]>>
         ELSE FailedWith(i, "InternalError") /\ Embeds(RespsOf(i)[1].text, o.err.msg)

(***************************************************************************)
(* C5.  A file_operations write whose content is absent or no string is    *)
(* answered InvalidParams, and no step of that call changes the            *)
(* filesystem: the handler never issues a filesystem call.                 *)
(***************************************************************************)
BadWrite(c) ==
  /\ c.req.name = "file_operations"
  /\ c.req.hasArgs
  /\ c.req.args.operation = S("write")
  /\ TypeOf(c.req.args.path) = "string"
  /\ TypeOf(c.req.args.content) # "string"

C5_BadWriteLeavesFileAlone ==
  /\ [](\A i \in DOMAIN calls :
          BadWrite(calls[i]) =>
            /\ calls[i].pc \in {"import", "done"}
            /\ calls[i].fsn = 0
            /\ calls[i].pc = "done" => FailedWith(i, "InvalidParams"))
  /\ [][\A i \in DOMAIN calls' :
          (BadWrite(calls'[i]) /\ (i \notin DOMAIN calls \/ calls'[i] # calls[i]))
            => fs' = fs]_vars

\* Both kinds of bad write (content absent, content a number) have been
\* answered while another call's write changed the same file.
C5_Witness ==
  /\ \E i \in DOMAIN calls :
       /\ BadWrite(calls[i]) /\ calls[i].req.args.content = Undef
       /\ FailedWith(i, "InvalidParams")
  /\ \E i \in DOMAIN calls :
       /\ BadWrite(calls[i]) /\ calls[i].req.args.content = Num(7)
       /\ FailedWith(i, "InvalidParams")
  /\ fs[<<"f">>] # InitFs[<<"f">>]


(***************************************************************************)
(* C6.  Round trip of write and read.                                      *)
(***************************************************************************)
IsFileOp(i, op, p) ==
  /\ calls[i].req.name = "file_operations"
  /\ calls[i].req.hasArgs
  /\ calls[i].req.args.operation = S(op)
  /\ calls[i].req.args.path = Str(p)

ReadText(p, c) == <<"File content of ">> \o p \o <<":\n">> \o c

\* A string no unpaired surrogate occurs in.
WellFormed(s) ==
  \A k \in DOMAIN s :
    /\ s[k] = "HI" => (k < Len(s) /\ s[k + 1] = "LO")
    /\ s[k] = "LO" => (k > 1 /\ s[k - 1] = "HI")

\* Write w returned success before read r was received.
WriteThenRead(w, r, p) ==
  /\ IsFileOp(w, "write", p) /\ Succeeded(w)
  /\ IsFileOp(r, "read", p) /\ Answered(r)
  /\ PosResp(w) < PosReq(r)

\* Another write to p returned between w's return and r's return.
WriteCompletedBetween(w, r, p) ==
  \E x \in DOMAIN calls :
    /\ x # w /\ IsFileOp(x, "write", p) /\ Answered(x)
    /\ PosResp(w) < PosResp(x) /\ PosResp(x) < PosResp(r)

\* Another write to p was in flight at some moment between the receipt of w
\* and r's return.
WriteInFlightBetween(w, r, p) ==
  \E x \in DOMAIN calls :
    /\ x # w /\ IsFileOp(x, "write", p)
    /\ PosReq(x) < PosResp(r)
    /\ Answered(x) => PosReq(w) < PosResp(x)

\* C6 as claimed: for every path P and string C, once write(P, C) has
\* returned success, a read(P) issued afterwards with no other write to P
\* completing in between returns exactly C as the file content.
C6_ReadReturnsWhatWasWritten ==
  \A w \in DOMAIN calls : \A r \in DOMAIN calls : \A p \in Paths :
    (WriteThenRead(w, r, p) /\ ~WriteCompletedBetween(w, r, p)) =>
      /\ Succeeded(r)
      /\ RespsOf(r)[1].text = ReadText(p, calls[w].req.args.content.s)

\* C6 as amended: for every path P and every string C with no unpaired
\* surrogate, once write(P, C) has returned success, a read(P) issued
\* afterwards returns exactly C as the file content, provided no other
\* write to P is in flight at any moment between the receipt of the write
\* and the return of the read.
C6_ReadReturnsWellFormedQuietWrite ==
  \A w \in DOMAIN calls : \A r \in DOMAIN calls : \A p \in Paths :
    (/\ WriteThenRead(w, r, p)
     /\ WellFormed(calls[w].req.args.content.s)
     /\ ~WriteInFlightBetween(w, r, p)) =>
      /\ Succeeded(r)
      /\ RespsOf(r)[1].text = ReadText(p, calls[w].req.args.content.s)

\* A surrogate pair and a two-byte letter were written and read back, after
\* an earlier write of something else to the same file had returned.
C6_Witness ==
  \E w \in DOMAIN calls : \E r \in DOMAIN calls : \E x \in DOMAIN calls :
    /\ WriteThenRead(w, r, <<"f">>)
    /\ calls[w].req.args.content = Str(<<"e'", "HI", "LO">>)
    /\ ~WriteInFlightBetween(w, r, <<"f">>)
    /\ RespsOf(r)[1].text = ReadText(<<"f">>, <<"e'", "HI", "LO">>)
    /\ IsFileOp(x, "write", <<"f">>) /\ Succeeded(x) /\ x < w
    /\ calls[x].req.args.content = Str(<<"HI">>)

(***************************************************************************)
(* C7.  list on a regular file is answered with a success result that      *)
(* reports a size in bytes the file had (its UTF-8 length, not its length  *)
(* in characters); list on a directory is answered with the entry names in *)
(* the order of the directory read, separated by newlines.                 *)
(***************************************************************************)
\* The byte sizes the file at p has had: its initial size and the UTF-8
\* size of every content a call writes to it.
SizesOf(p) ==
  {Len(InitFs[p].bytes)}
    \cup {Len(Utf8Encode(calls[x].req.args.content.s)) :
            x \in {y \in DOMAIN calls : IsFileOp(y, "write", p)
                                         /\ TypeOf(calls[y].req.args.content) = "string"}}

NewlineJoined(text, ents) ==
  /\ Len(text) = 2 * Len(ents) - 1
  /\ \A k \in DOMAIN ents : text[2 * k - 1] = ents[k]
  /\ \A k \in 1..(Len(ents) - 1) : text[2 * k] = "\n"

C7_ListFileGivesSizeListDirGivesNames ==
  \A i \in DOMAIN calls : \A p \in Paths :
    (IsFileOp(i, "list", p) /\ calls[i].pc = "done") =>
      /\ fs[p].t = "file" =>
           /\ Succeeded(i)
           /\ \E n \in SizesOf(p) :
                RespsOf(i)[1].text = p \o <<" is a file (size: ", ToString(n), " bytes)">>
      /\ fs[p].t = "dir" =>
           /\ Succeeded(i)
           /\ \E rest \in {SubSeq(RespsOf(i)[1].text, 4, Len(RespsOf(i)[1].text))} :
                /\ SubSeq(RespsOf(i)[1].text, 1, 3) = <<"Directory contents of ">> \o p \o <<":\n">>
                /\ NewlineJoined(rest, fs[p].ents)

\* list has reported 6 bytes for a file of three UTF-16 code units, and has
\* listed the directory.
C7_Witness ==
  /\ \E i \in DOMAIN calls :
       /\ IsFileOp(i, "list", <<"f">>) /\ Succeeded(i)
       /\ RespsOf(i)[1].text = <<"f", " is a file (size: ", "6", " bytes)">>
  /\ \E i \in DOMAIN calls :
       /\ IsFileOp(i, "list", <<"d">>) /\ Succeeded(i)
       /\ RespsOf(i)[1].text = <<"Directory contents of ", "d", ":\n", "z", "\n", "b", "\n", "c">>


(***************************************************************************)
(* C8.  An http_request whose caller supplies a timeout t >= 0, against a  *)
(* remote whose response latency is above t, is answered InternalError     *)
(* with a message that tells of the abort, and exactly one outbound        *)
(* request was sent for it.                                                *)
(***************************************************************************)
C8_TimeoutBelowLatencyAborts ==
  \A i \in DOMAIN calls :
    (/\ calls[i].req.name = "http_request"
     /\ TypeOf(calls[i].req.args.url) = "string"
     /\ TypeOf(calls[i].req.args.timeout) = "number"
     /\ calls[i].req.args.timeout.n >= 0
     /\ calls[i].lat > calls[i].req.args.timeout.n
     /\ calls[i].pc = "done") =>
      /\ FailedWith(i, "InternalError")
      /\ Embeds(RespsOf(i)[1].text, <<"This operation was aborted">>)
      /\ Len(NetOf(i)) = 1

(***************************************************************************)
(* C9.  list-tools gives exactly one descriptor for every tool name the    *)
(* call-tool switch routes to a handler and no descriptor for any other    *)
(* name, and gives the same sequence on every call, whatever call-tool     *)
(* requests ran in between.                                                *)
(***************************************************************************)
C9_ListMatchesSwitchAndIsStable ==
  \A k \in DOMAIN listed :
    /\ \A n \in SwitchCases(build) :
         Cardinality({j \in DOMAIN listed[k].tools : listed[k].tools[j].name = n}) = 1
    /\ \A j \in DOMAIN listed[k].tools : listed[k].tools[j].name \in SwitchCases(build)
    /\ listed[k].tools = listed[1].tools

\* Two list-tools responses with a call-tool request answered in between.
C9_Witness ==
  /\ Len(listed) = 2
  /\ listed[1].after < listed[2].after
  /\ \E i \in DOMAIN calls : listed[1].after < i /\ i <= listed[2].after /\ Answered(i)

(***************************************************************************)
(* C10.  A call that gives a field whose schema enumerates its allowed     *)
(* values a string outside that set is answered InvalidParams, and its     *)
(* handler performs no filesystem or network operation.                    *)
(***************************************************************************)
OutsideEnum(i) ==
  /\ calls[i].req.hasArgs
  /\ \E d \in Registered :
       /\ d.name = calls[i].req.name
       /\ \A p \in d.props :
            p.required => TypeOf(calls[i].req.args[p.field]) = p.kind
       /\ \E p \in d.props :
            /\ p.enum # {}
            /\ TypeOf(calls[i].req.args[p.field]) = "string"
            /\ calls[i].req.args[p.field].s \notin p.enum

C10_OutsideEnumIsInvalidParams ==
  \A i \in DOMAIN calls :
    OutsideEnum(i) =>
      /\ NoEffects(i)
      /\ calls[i].pc = "done" => FailedWith(i, "InvalidParams")

(***************************************************************************)
(* C11.  A get_time call is always answered with a result of one text      *)
(* block, "Current time: " and the instant, whether the request's          *)
(* arguments are absent, an empty object, or an object with undeclared     *)
(* fields.                                                                 *)
(***************************************************************************)
C11_GetTimeNeedsNoArguments ==
  \A i \in DOMAIN calls :
    calls[i].req.name = "get_time" =>
      /\ Succeeded(i)
      /\ \E now \in Clock : RespsOf(i)[1].text = <<"Current time: ", now>>

(***************************************************************************)
(* C12.  After the shutdown signal the server accepts no new request, and  *)
(* every handler that was in flight when the signal arrived still runs to  *)
(* its completion or fault: every call received is eventually answered.    *)
(***************************************************************************)
C12_ShutdownLetsHandlersFinish ==
  /\ [][proc = "exited" => Len(calls') = Len(calls)]_vars
  /\ \A i \in 1..MaxFsReqs :
       []((proc = "exited" /\ i \in DOMAIN calls) => <>(i \in DOMAIN calls /\ Answered(i)))

(***************************************************************************)
(* C13.  A call to a non-suspending tool (echo, add_numbers, get_time) is  *)
(* answered in the step that receives it, also while handlers of earlier   *)
(* calls are suspended on I/O, so responses may leave in another order     *)
(* than their requests.  In every interleaving a response carries the      *)
(* identity of a request received before it, no request gets two           *)
(* responses, and the content of the response to a request is what that    *)
(* request's handler computes from the request's own arguments (and the    *)
(* results of the I/O it awaited), whatever other requests are in flight.  *)
(***************************************************************************)
NonSuspending == {"echo", "add_numbers", "get_time"}

Aborted == IoErr(<<"This operation was aborted">>)

\* The handler of one request run on its own from outcome o to its answer,
\* against filesystem f and a remote that gives r.
RECURSIVE RunAlone(_, _, _, _, _)
RunAlone(b, args, o, f, r) ==
  IF o.t # "await" THEN o
  ELSE LET io == CASE o.pc = "readFile" -> FsReadFile(f, args.path.s)
                   [] o.pc = "writeFile" -> FsWriteFileResult(f, args.path.s)
                   [] o.pc = "stat" -> FsStat(f, args.path.s)
                   [] o.pc = "readdir" -> FsReaddir(f, args.path.s)
                   [] OTHER -> r
           step == IF o.pc = "import" THEN FileOpsSwitch(args) ELSE Resume(args, o.pc, io)
       IN RunAlone(b, args, Settle(b, o.pc, step), f, r)

C13_SlowHandlerDoesNotBlockOrMixResponses ==
  /\ \A i \in DOMAIN calls :
       calls[i].req.name \in NonSuspending =>
         Answered(i) /\ PosResp(i) = PosReq(i) + 1
  /\ \A k \in DOMAIN wire :
       IsResponse(wire[k]) =>
         /\ wire[k].id \in DOMAIN calls
         /\ PosReq(wire[k].id) < k
         /\ Len(RespsOf(wire[k].id)) = 1
  /\ \A i \in DOMAIN calls :
       Answered(i) =>
         \E now \in Clock : \E r \in Remotes \cup {Aborted} :
           RespsOf(i)[1] =
             ResponseMsg(i, RunAlone(build, calls[i].req.args,
                                     CallToolEntry(build, calls[i].req, now, apiKey),
                                     InitFs, r))

\* A file read was received, then an echo, and the echo was answered first;
\* each got its own content.
C13_Witness ==
  /\ Len(calls) = 2
  /\ IsFileOp(1, "read", <<"f">>) /\ Succeeded(1)
  /\ calls[2].req = Req("echo", With(Empty, "text", S("yo"))) /\ Succeeded(2)
  /\ PosReq(1) < PosReq(2)
  /\ PosResp(2) < PosResp(1)
  /\ RespsOf(2)[1].text = <<"Echo: ", "yo">>
  /\ RespsOf(1)[1].text = ReadText(<<"f">>, <<"a">>)

(***************************************************************************)
(* C14.  A weather_api call with a valid city that arrives while the       *)
(* credential is not configured is answered at once with a successful      *)
(* result holding the setup instructions, and sends no outbound request.   *)
(* The credential is read at every invocation: a call that arrives while   *)
(* it is configured, also after earlier calls found none, sends exactly    *)
(* one outbound request, which carries the credential; no later step of a  *)
(* call sends another.                                                     *)
(***************************************************************************)
ValidWeather(req) ==
  req.name = "weather_api" /\ req.hasArgs /\ TypeOf(req.args.city) = "string"

C14_WeatherReadsCredentialAtEachCall ==
  /\ [][(Len(calls') = Len(calls) + 1 /\ ValidWeather(calls'[Len(calls')].req)) =>
          LET i == Len(calls')
          IN IF apiKey = ""
             THEN /\ net' = net
                  /\ wire' = wire \o <<RequestMsg(i),
                                        [id |-> i, kind |-> "result", code |-> "",
                                         text |-> WeatherSetupText]>>
             ELSE /\ net' = Append(net, [id |-> i, method |-> "GET",
                                         url |-> WeatherUrl(calls'[i].req.args, apiKey)])
                  /\ Embeds(net'[Len(net')].url, <<"&appid=", apiKey>>)]_vars
  /\ [][Len(calls') = Len(calls) => net' = net]_vars

\* The first call found no credential and got the setup instructions; the
\* credential was then set, and the second call sent its one request and
\* was answered with the weather.
C14_Witness ==
  /\ Len(calls) = 2
  /\ ValidWeather(calls[1].req) /\ ValidWeather(calls[2].req)
  /\ Succeeded(1) /\ RespsOf(1)[1].text = WeatherSetupText /\ NetOf(1) = <<>>
  /\ apiKey = "k"
  /\ Len(NetOf(2)) = 1 /\ Embeds(NetOf(2)[1].url, <<"&appid=", "k">>)
  /\ Succeeded(2) /\ RespsOf(2)[1].text # WeatherSetupText

(***************************************************************************)
(* C15.  A call to a registered tool whose required fields are well typed  *)
(* and in which an optional field of the schema is present with a value of *)
(* another primitive kind than declared is answered InvalidParams: the     *)
(* mistyped value is never accepted, ignored or coerced.                   *)
(***************************************************************************)
MistypedOptional(i) ==
  /\ calls[i].req.hasArgs
  /\ \E d \in Registered :
       /\ d.name = calls[i].req.name
       /\ \A p \in d.props :
            p.required => TypeOf(calls[i].req.args[p.field]) = p.kind
       /\ \E p \in d.props :
            /\ ~p.required
            /\ TypeOf(calls[i].req.args[p.field]) \notin {"undefined", p.kind}

C15_MistypedOptionalIsInvalidParams ==
  \A i \in DOMAIN calls :
    (MistypedOptional(i) /\ calls[i].pc = "done") => FailedWith(i, "InvalidParams")

(***************************************************************************)
(* C16.  Tool lookup and argument validation never suspend: a call that is *)
(* answered MethodNotFound or InvalidParams gets that answer in the step   *)
(* that receives the request, so its failure is the next message on the    *)
(* wire after its request and nothing is interleaved between the two.      *)
(***************************************************************************)
ValidationFailure(m) ==
  m.kind = "error" /\ m.code \in {"MethodNotFound", "InvalidParams"}

C16_ValidationNeverSuspends ==
  /\ [][\A i \in DOMAIN calls :
          (Len(wire') = Len(wire) + 1 /\ wire'[Len(wire')].id = i)
            => ~ValidationFailure(wire'[Len(wire')])]_vars
  /\ [](\A i \in DOMAIN calls :
          (Answered(i) /\ ValidationFailure(RespsOf(i)[1])) => PosResp(i) = PosReq(i) + 1)

====
